---- MODULE Spec2Model ----
(***************************************************************************)
(* Schema drift detection of bo4e-rust: scripts/compare_schemas.py.        *)
(*                                                                         *)
(* Python values are represented as follows.                               *)
(*   dict      a function whose DOMAIN is the set of keys ({} is <<>>)     *)
(*   list      a sequence                                                  *)
(*   set       a set                                                       *)
(*   str       a string; f-strings are built with \o                       *)
(*   None      the string "None" (what str(None) formats to); no type tag  *)
(*             of the model's universe is spelled "None"                   *)
(* sorted() orders strings by code point.  TLA+ strings carry no order, so *)
(* the order is tabulated for the finite universe of strings of the model. *)
(***************************************************************************)
EXTENDS Integers, Sequences, FiniteSets, TLC

VARIABLES
  script_file, \* __file__ of the script, as the parts of Path(__file__)
  files,      \* str(path) -> what the file system holds at that path
  pc,         \* position of main()
  python,     \* local `python` of main(): <<>> while unbound, <<doc>> once loaded
  rust,       \* local `rust` of main(), likewise
  report,     \* the DriftReport of main(): <<>> before it is constructed, <<r>> after
  cat_i,      \* index of the category the loop of main() handles next
  stdout,     \* what was printed to sys.stdout, one element per print()
  stderr,     \* what was printed to sys.stderr, one element per print()
  exit_code   \* process exit status, -1 while running

vars == <<script_file, files, pc, python, rust, report, cat_i, stdout, stderr, exit_code>>

----------------------------------------------------------------------------
(* Bounds of the model. *)

\* a type definition has at most MaxFields properties
MaxFields == 2
\* an enum lists at most MaxVariants variants (a list: repeats allowed)
MaxVariants == 2

(* The finite universe the snapshots are drawn from. *)
TypeNames == {"Adresse", "Zaehler"}
FieldNames == {"_id", "nummer", "ort"}
TypeTags == {"", "integer", "string"}
EnumNames == {"Energierichtung", "Sparte"}
VariantNames == {"GAS", "STROM"}

----------------------------------------------------------------------------
(* Python built-ins. *)

None == "None"

\* d.get(k, dflt)
Get(d, k, dflt) == IF k \in DOMAIN d THEN d[k] ELSE dflt

\* d[k] = v
Put(d, k, v) == [x \in (DOMAIN d) \cup {k} |-> IF x = k THEN v ELSE d[x]]

\* set(lst)
SetOf(lst) == {lst[i] : i \in DOMAIN lst}

\* bool(v) for v a str or None
Truthy(v) == v /= None /\ v /= ""

\* The atomic names of the universe (type, field, enum and variant names) in
\* code-point order: upper case letters sort before "_", and "_" before lower
\* case letters.
TypeOrder == << "Adresse", "Zaehler" >>
FieldOrder == << "_id", "_typ", "_version", "nummer", "ort", "zusatzAttribute" >>
NameOrder ==
  << "Adresse", "Energierichtung", "GAS", "STROM", "Sparte", "WASSER", "Zaehler",
     "_id", "_typ", "_version", "nummer", "ort", "zusatzAttribute" >>

\* The values a formatted type tag takes, in code-point order of the text
\* that starts with it inside a mismatch line ("" is followed by ",").
TagOrder == << "", "None", "integer", "string" >>

RECURSIVE Flatten(_)
Flatten(ss) == IF ss = <<>> THEN <<>> ELSE Head(ss) \o Flatten(Tail(ss))

\* f"{category}/{name}"
qualified(category, name) == category \o "/" \o name

\* f"{category}/{name}.{fld}: Python={py_type}, Rust={rs_type}"
mismatch_line(category, name, fld, py_type, rs_type) ==
  qualified(category, name) \o "." \o fld \o ": Python=" \o py_type
    \o ", Rust=" \o rs_type

\* Every string the program sorts, in code-point order.  No name of the
\* universe is a prefix of another and every name is an identifier, so a
\* composite string is ordered by its first differing component.
CodePointOrder ==
  NameOrder
  \o Flatten([ci \in DOMAIN <<"bo", "com">> |->
       Flatten([ti \in DOMAIN TypeOrder |->
         <<qualified(<<"bo", "com">>[ci], TypeOrder[ti])>>
         \o Flatten([fi \in DOMAIN FieldOrder |->
              Flatten([ai \in DOMAIN TagOrder |->
                [bi \in DOMAIN TagOrder |->
                   mismatch_line(<<"bo", "com">>[ci], TypeOrder[ti], FieldOrder[fi],
                                 TagOrder[ai], TagOrder[bi])]])])])])
  \o [ti \in DOMAIN NameOrder |-> qualified("enum", NameOrder[ti])]

Rank ==
  [s \in {CodePointOrder[i] : i \in DOMAIN CodePointOrder} |->
     CHOOSE i \in DOMAIN CodePointOrder : CodePointOrder[i] = s]

\* a < b on str
StrLess(a, b) == Rank[a] < Rank[b]

RECURSIVE SortedSet(_)
\* sorted(S) for S a set (or the keys of a dict) of str
SortedSet(S) ==
  IF S = {} THEN <<>>
  ELSE LET m == CHOOSE x \in S : \A y \in S : ~StrLess(y, x)
       IN <<m>> \o SortedSet(S \ {m})

RECURSIVE Insert(_, _)
Insert(x, lst) ==
  IF lst = <<>> THEN <<x>>
  ELSE IF StrLess(x, Head(lst)) THEN <<x>> \o lst
  ELSE <<Head(lst)>> \o Insert(x, Tail(lst))

RECURSIVE SortedList(_)
\* sorted(lst) for lst a list of str (stable; repeats are kept)
SortedList(lst) ==
  IF lst = <<>> THEN <<>>
  ELSE Insert(lst[Len(lst)], SortedList(SubSeq(lst, 1, Len(lst) - 1)))

RECURSIVE JoinWith(_, _)
\* sep.join(lst)
JoinWith(sep, lst) ==
  IF lst = <<>> THEN ""
  ELSE IF Len(lst) = 1 THEN lst[1]
  ELSE lst[1] \o sep \o JoinWith(sep, Tail(lst))

\* str(lst) for lst a list of str: "['a', 'b']"
PyList(lst) ==
  "[" \o JoinWith(", ", [i \in DOMAIN lst |-> "'" \o lst[i] \o "'"]) \o "]"

----------------------------------------------------------------------------
(* class DriftReport *)

DriftReport ==
  [missing_in_rust |-> <<>>, missing_in_python |-> <<>>, type_mismatches |-> <<>>]

\* has_drift that forgets the mismatch list
has_drift_no_types(r) ==
  \/ DOMAIN r.missing_in_rust /= {}
  \/ DOMAIN r.missing_in_python /= {}

has_drift(r) ==
  \/ DOMAIN r.missing_in_rust /= {}
  \/ DOMAIN r.missing_in_python /= {}
  \/ r.type_mismatches /= <<>>

----------------------------------------------------------------------------
(* compare_enums *)

\* enum_step with `elif extra:` for `if extra:`
enum_step_elif(python_enums, rust_enums, name, r) ==
  LET py_variants == SetOf(Get(python_enums, name, <<>>))
      rs_variants == SetOf(Get(rust_enums, name, <<>>))
      key == qualified("enum", name)
  IN IF name \notin DOMAIN rust_enums
       THEN [r EXCEPT !.missing_in_rust = Put(@, key, "entire type")]
     ELSE IF name \notin DOMAIN python_enums
       THEN [r EXCEPT !.missing_in_python = Put(@, key, "entire type")]
     ELSE
       LET missing == py_variants \ rs_variants
           extra == rs_variants \ py_variants
       IN IF missing /= {}
            THEN [r EXCEPT !.missing_in_rust =
                    Put(@, key, "variants: " \o PyList(SortedSet(missing)))]
          ELSE IF extra /= {}
            THEN [r EXCEPT !.missing_in_python =
                    Put(@, key, "variants: " \o PyList(SortedSet(extra)))]
          ELSE r

\* body of the loop of compare_enums for one name
enum_step(python_enums, rust_enums, name, r) ==
  LET py_variants == SetOf(Get(python_enums, name, <<>>))
      rs_variants == SetOf(Get(rust_enums, name, <<>>))
      key == qualified("enum", name)
  IN IF name \notin DOMAIN rust_enums
       THEN [r EXCEPT !.missing_in_rust = Put(@, key, "entire type")]
     ELSE IF name \notin DOMAIN python_enums
       THEN [r EXCEPT !.missing_in_python = Put(@, key, "entire type")]
     ELSE
       LET missing == py_variants \ rs_variants
           extra == rs_variants \ py_variants
           r1 == IF missing /= {}
                   THEN [r EXCEPT !.missing_in_rust =
                           Put(@, key, "variants: " \o PyList(SortedSet(missing)))]
                   ELSE r
       IN IF extra /= {}
            THEN [r1 EXCEPT !.missing_in_python =
                    Put(@, key, "variants: " \o PyList(SortedSet(extra)))]
            ELSE r1

RECURSIVE enum_loop(_, _, _, _)
enum_loop(python_enums, rust_enums, names, r) ==
  IF names = <<>> THEN r
  ELSE enum_loop(python_enums, rust_enums, Tail(names),
                 enum_step(python_enums, rust_enums, Head(names), r))

compare_enums(python_enums, rust_enums, r) ==
  LET all_names == (DOMAIN python_enums) \cup (DOMAIN rust_enums)
  IN enum_loop(python_enums, rust_enums, SortedSet(all_names), r)

----------------------------------------------------------------------------
(* compare_models *)

ignore_fields == {"_typ", "_version", "_id", "zusatzAttribute"}

\* fields_of that forgets to subtract the ignore set
fields_of_all(props) == DOMAIN props

\* py_fields = set(py_props.keys()); py_fields -= ignore_fields
fields_of(props) == (DOMAIN props) \ ignore_fields

\* is_mismatch that forgets to test rs_type
is_mismatch_one_sided(py_type, rs_type) ==
  Truthy(py_type) /\ py_type /= rs_type

\* is_mismatch that forgets to compare the two tags
is_mismatch_no_compare(py_type, rs_type) ==
  Truthy(py_type) /\ Truthy(rs_type)

\* if py_type and rs_type and py_type != rs_type
is_mismatch(py_type, rs_type) ==
  Truthy(py_type) /\ Truthy(rs_type) /\ py_type /= rs_type

RECURSIVE mismatch_loop(_, _, _, _, _, _)
\* for fld in sorted(py_fields & rs_fields): ...
mismatch_loop(category, name, py_props, rs_props, flds, r) ==
  IF flds = <<>> THEN r
  ELSE
    LET fld == Head(flds)
        py_type == Get(py_props[fld], "type", None)
        rs_type == Get(rs_props[fld], "type", None)
        r1 == IF is_mismatch(py_type, rs_type)
                THEN [r EXCEPT !.type_mismatches =
                        Append(@, mismatch_line(category, name, fld, py_type, rs_type))]
                ELSE r
    IN mismatch_loop(category, name, py_props, rs_props, Tail(flds), r1)

\* field_step with `elif extra:` for `if extra:`
field_step_elif(category, name, py_def, rs_def, r) ==
  LET key == qualified(category, name)
      py_props == Get(py_def, "properties", <<>>)
      rs_props == Get(rs_def, "properties", <<>>)
      py_fields == fields_of(py_props)
      rs_fields == fields_of(rs_props)
      missing == py_fields \ rs_fields
      extra == rs_fields \ py_fields
      r2 == IF missing /= {}
              THEN [r EXCEPT !.missing_in_rust =
                      Put(@, key, "fields: " \o PyList(SortedSet(missing)))]
            ELSE IF extra /= {}
              THEN [r EXCEPT !.missing_in_python =
                      Put(@, key, "fields: " \o PyList(SortedSet(extra)))]
            ELSE r
  IN mismatch_loop(category, name, py_props, rs_props,
                   SortedSet(py_fields \cap rs_fields), r2)

\* the field-level comparison of a type both sides define
field_step(category, name, py_def, rs_def, r) ==
  LET key == qualified(category, name)
      py_props == Get(py_def, "properties", <<>>)
      rs_props == Get(rs_def, "properties", <<>>)
      py_fields == fields_of(py_props)
      rs_fields == fields_of(rs_props)
      missing == py_fields \ rs_fields
      extra == rs_fields \ py_fields
      r1 == IF missing /= {}
              THEN [r EXCEPT !.missing_in_rust =
                      Put(@, key, "fields: " \o PyList(SortedSet(missing)))]
              ELSE r
      r2 == IF extra /= {}
              THEN [r1 EXCEPT !.missing_in_python =
                      Put(@, key, "fields: " \o PyList(SortedSet(extra)))]
              ELSE r1
  IN mismatch_loop(category, name, py_props, rs_props,
                   SortedSet(py_fields \cap rs_fields), r2)

\* model_step that records a one-sided type in the map of the wrong side
model_step_swapped(category, python_models, rust_models, name, r) ==
  IF name \notin DOMAIN rust_models
    THEN [r EXCEPT !.missing_in_python = Put(@, qualified(category, name), "entire type")]
  ELSE IF name \notin DOMAIN python_models
    THEN [r EXCEPT !.missing_in_rust = Put(@, qualified(category, name), "entire type")]
  ELSE field_step(category, name, python_models[name], rust_models[name], r)

\* body of the loop of compare_models for one type name
model_step(category, python_models, rust_models, name, r) ==
  IF name \notin DOMAIN rust_models
    THEN [r EXCEPT !.missing_in_rust = Put(@, qualified(category, name), "entire type")]
  ELSE IF name \notin DOMAIN python_models
    THEN [r EXCEPT !.missing_in_python = Put(@, qualified(category, name), "entire type")]
  ELSE field_step(category, name, python_models[name], rust_models[name], r)

RECURSIVE model_loop(_, _, _, _, _)
model_loop(category, python_models, rust_models, names, r) ==
  IF names = <<>> THEN r
  ELSE model_loop(category, python_models, rust_models, Tail(names),
                  model_step(category, python_models, rust_models, Head(names), r))

compare_models(category, python_models, rust_models, r) ==
  LET all_names == (DOMAIN python_models) \cup (DOMAIN rust_models)
  IN model_loop(category, python_models, rust_models, SortedSet(all_names), r)

----------------------------------------------------------------------------
(* generate_report *)

RECURSIVE bullets(_, _)
\* one "- **key**: description" line per key of keys, in that order
bullets(d, keys) ==
  IF keys = <<>> THEN <<>>
  ELSE <<"- **" \o Head(keys) \o "**: " \o d[Head(keys)]>> \o bullets(d, Tail(keys))

\* the list `lines` when generate_report returns
report_lines(r) ==
  LET head == <<"# BO4E Drift Report", "">>
  IN IF ~has_drift(r)
       THEN head \o <<"No drift detected - schemas are in sync!">>
     ELSE
       head
       \o <<"Drift detected between Python and Rust schemas\n">>
       \o (IF DOMAIN r.missing_in_rust /= {}
             THEN <<"## Missing in Rust (exists in Python)\n">>
                  \o bullets(r.missing_in_rust, SortedSet(DOMAIN r.missing_in_rust))
                  \o <<"">>
             ELSE <<>>)
       \o (IF DOMAIN r.missing_in_python /= {}
             THEN <<"## Missing in Python (exists in Rust)\n">>
                  \o bullets(r.missing_in_python, SortedSet(DOMAIN r.missing_in_python))
                  \o <<"">>
             ELSE <<>>)
       \o (IF r.type_mismatches /= <<>>
             THEN <<"## Type Mismatches\n">>
                  \o [i \in DOMAIN r.type_mismatches |->
                        "- " \o SortedList(r.type_mismatches)[i]]
                  \o <<"">>
             ELSE <<>>)
       \o <<"## Summary\n",
            "- Missing in Rust: " \o ToString(Cardinality(DOMAIN r.missing_in_rust)),
            "- Missing in Python: " \o ToString(Cardinality(DOMAIN r.missing_in_python)),
            "- Type mismatches: " \o ToString(Len(r.type_mismatches))>>

generate_report(r) == JoinWith("\n", report_lines(r))

----------------------------------------------------------------------------
(* main *)

\* pathlib: a path is the sequence of its parts, "/" first when absolute
\* Path.parent
PathParent(p) ==
  IF p = <<>> \/ p = <<"/">> THEN p ELSE SubSeq(p, 1, Len(p) - 1)

\* p / name
PathDiv(p, name) == Append(p, name)

\* str(p)
PathStr(p) ==
  IF p = <<>> THEN "."
  ELSE IF Head(p) = "/" THEN "/" \o JoinWith("/", Tail(p))
  ELSE JoinWith("/", p)

\* schemas_dir = Path(__file__).parent.parent / "schemas"
schemas_dir_of(file) == PathDiv(PathParent(PathParent(file)), "schemas")

\* str(schemas_dir / "python_schema.json"), str(schemas_dir / "rust_schema.json")
python_path_of(file) == PathStr(PathDiv(schemas_dir_of(file), "python_schema.json"))
rust_path_of(file) == PathStr(PathDiv(schemas_dir_of(file), "rust_schema.json"))

\* the text of python_path and of rust_path in the run at hand
python_path == python_path_of(script_file)
rust_path == rust_path_of(script_file)

\* the list the loop of main() runs over
categories == <<"bo", "com">>

\* What a path of the file system holds: nothing, a file json.load rejects,
\* or a file json.load turns into the document doc.
NoFile == [exists |-> FALSE, parses |-> FALSE, doc |-> <<>>]
BadFile == [exists |-> TRUE, parses |-> FALSE, doc |-> <<>>]
JsonFile(doc) == [exists |-> TRUE, parses |-> TRUE, doc |-> doc]

\* if not python_path.exists(): ... sys.exit(1)
CheckPythonPath ==
  /\ pc = "check_python"
  /\ IF ~files[python_path].exists
       THEN /\ stderr' = stderr \o
                 <<"Error: " \o python_path \o " not found",
                   "Run: python scripts/extract_python_schema.py > schemas/python_schema.json">>
            /\ exit_code' = 1
            /\ pc' = "done"
       ELSE /\ pc' = "check_rust"
            /\ UNCHANGED <<stderr, exit_code>>
  /\ UNCHANGED <<script_file, files, python, rust, report, cat_i, stdout>>

\* CheckRustPath that prints the diagnostic and forgets sys.exit(1)
CheckRustPath_no_exit ==
  /\ pc = "check_rust"
  /\ IF ~files[rust_path].exists
       THEN stderr' = stderr \o
              <<"Error: " \o rust_path \o " not found",
                "Run: cargo run --bin generate_schema --features json-schema > schemas/rust_schema.json">>
       ELSE UNCHANGED stderr
  /\ pc' = "load_python"
  /\ UNCHANGED <<script_file, files, python, rust, report, cat_i, stdout, exit_code>>

\* if not rust_path.exists(): ... sys.exit(1)
CheckRustPath ==
  /\ pc = "check_rust"
  /\ IF ~files[rust_path].exists
       THEN /\ stderr' = stderr \o
                 <<"Error: " \o rust_path \o " not found",
                   "Run: cargo run --bin generate_schema --features json-schema > schemas/rust_schema.json">>
            /\ exit_code' = 1
            /\ pc' = "done"
       ELSE /\ pc' = "load_python"
            /\ UNCHANGED <<stderr, exit_code>>
  /\ UNCHANGED <<script_file, files, python, rust, report, cat_i, stdout>>

\* with open(python_path) as f: python = json.load(f)
\* json.load raises on a file that is no JSON document; nothing catches it,
\* so the interpreter prints the traceback and exits with status 1.
LoadPython ==
  /\ pc = "load_python"
  /\ IF files[python_path].parses
       THEN /\ python' = <<files[python_path].doc>>
            /\ pc' = "load_rust"
            /\ UNCHANGED <<stderr, exit_code>>
       ELSE /\ stderr' = Append(stderr, "Traceback (most recent call last): json.decoder.JSONDecodeError")
            /\ exit_code' = 1
            /\ pc' = "done"
            /\ UNCHANGED python
  /\ UNCHANGED <<script_file, files, rust, report, cat_i, stdout>>

\* with open(rust_path) as f: rust = json.load(f)
LoadRust ==
  /\ pc = "load_rust"
  /\ IF files[rust_path].parses
       THEN /\ rust' = <<files[rust_path].doc>>
            /\ pc' = "new_report"
            /\ UNCHANGED <<stderr, exit_code>>
       ELSE /\ stderr' = Append(stderr, "Traceback (most recent call last): json.decoder.JSONDecodeError")
            /\ exit_code' = 1
            /\ pc' = "done"
            /\ UNCHANGED rust
  /\ UNCHANGED <<script_file, files, python, report, cat_i, stdout>>

\* report = DriftReport()
NewReport ==
  /\ pc = "new_report"
  /\ report' = <<DriftReport>>
  /\ cat_i' = 1
  /\ pc' = "compare_models"
  /\ UNCHANGED <<script_file, files, python, rust, stdout, stderr, exit_code>>

\* one iteration of: for category in ["bo", "com"]: compare_models(...)
CompareModels ==
  /\ pc = "compare_models"
  /\ cat_i <= Len(categories)
  /\ LET category == categories[cat_i]
     IN report' = <<compare_models(category,
                                   Get(python[1], category, <<>>),
                                   Get(rust[1], category, <<>>),
                                   report[1])>>
  /\ cat_i' = cat_i + 1
  /\ pc' = IF cat_i = Len(categories) THEN "compare_enums" ELSE "compare_models"
  /\ UNCHANGED <<script_file, files, python, rust, stdout, stderr, exit_code>>

\* compare_enums(python.get("enum", {}), rust.get("enum", {}), report)
CompareEnums ==
  /\ pc = "compare_enums"
  /\ report' = <<compare_enums(Get(python[1], "enum", <<>>),
                               Get(rust[1], "enum", <<>>),
                               report[1])>>
  /\ pc' = "print"
  /\ UNCHANGED <<script_file, files, python, rust, cat_i, stdout, stderr, exit_code>>

\* print(generate_report(report))
PrintReport ==
  /\ pc = "print"
  /\ stdout' = Append(stdout, generate_report(report[1]))
  /\ pc' = "exit"
  /\ UNCHANGED <<script_file, files, python, rust, report, cat_i, stderr, exit_code>>

\* an exit that fails the run on drift
Exit_on_drift ==
  /\ pc = "exit"
  /\ exit_code' = IF has_drift(report[1]) THEN 1 ELSE 0
  /\ pc' = "done"
  /\ UNCHANGED <<script_file, files, python, rust, report, cat_i, stdout, stderr>>

\* sys.exit(0)
Exit ==
  /\ pc = "exit"
  /\ exit_code' = 0
  /\ pc' = "done"
  /\ UNCHANGED <<script_file, files, python, rust, report, cat_i, stdout, stderr>>

\* what lines 150-156 of main() leave in `report` for the documents p and r
full_compare(p, r) ==
  compare_enums(Get(p, "enum", <<>>), Get(r, "enum", <<>>),
    compare_models("com", Get(p, "com", <<>>), Get(r, "com", <<>>),
      compare_models("bo", Get(p, "bo", <<>>), Get(r, "bo", <<>>), DriftReport)))

Next ==
  \/ CheckPythonPath
  \/ CheckRustPath
  \/ LoadPython
  \/ LoadRust
  \/ NewReport
  \/ CompareModels
  \/ CompareEnums
  \/ PrintReport
  \/ Exit

----------------------------------------------------------------------------
(* The snapshot documents the runs start from. *)

\* {} or {"type": tag}
FieldEntries == {<<>>} \cup {[k \in {"type"} |-> t] : t \in TypeTags}

\* the "properties" dicts with at most MaxFields fields
Properties ==
  UNION {[F -> FieldEntries] :
           F \in {G \in SUBSET FieldNames : Cardinality(G) <= MaxFields}}

\* a type's schema: with or without a "properties" key
TypeDefs == {<<>>} \cup {[k \in {"properties"} |-> p] : p \in Properties}

\* lists of at most MaxVariants variant names
VariantLists == UNION {[1..n -> VariantNames] : n \in 0..MaxVariants}

\* the value of the "enum" key
EnumTables == UNION {[E -> VariantLists] : E \in SUBSET EnumNames}

\* A document from the values of its three keys, each <<>> when the key is
\* absent and <<value>> when it is present.
Doc(bo, com, enum) ==
  [k \in {x \in {"bo", "com", "enum"} :
            \/ x = "bo" /\ Len(bo) = 1
            \/ x = "com" /\ Len(com) = 1
            \/ x = "enum" /\ Len(enum) = 1} |->
     IF k = "bo" THEN bo[1] ELSE IF k = "com" THEN com[1] ELSE enum[1]]

\* The values of __file__: absolute, as the interpreter sets it from 3.9 on,
\* and as given on the command line, as earlier interpreters leave it.
AbsoluteScript == <<"/", "srv", "bo4e-rust", "scripts", "compare_schemas.py">>
ScriptFiles ==
  { AbsoluteScript,
    <<"scripts", "compare_schemas.py">>,
    <<"compare_schemas.py">> }

InitRun(file, fs) ==
  /\ script_file = file
  /\ files = fs
  /\ pc = "check_python"
  /\ python = <<>>
  /\ rust = <<>>
  /\ report = <<>>
  /\ cat_i = 0
  /\ stdout = <<>>
  /\ stderr = <<>>
  /\ exit_code = -1

\* the runs of the script at a location of scripts, over every state of the
\* two paths drawn from docs
InitOver(scripts, docs) ==
  \E file \in scripts :
    \E pf, rf \in {NoFile, BadFile} \cup {JsonFile(d) : d \in docs} :
       InitRun(file, (python_path_of(file) :> pf) @@ (rust_path_of(file) :> rf))

\* documents whose "bo" key holds at most the type Zaehler, with any schema,
\* and whose "com" key holds at most the type Adresse
ModelDocs ==
  {Doc(bo, com, <<>>) :
     bo \in {<<>>, <<(<<>>)>>} \cup {<<[n \in {"Zaehler"} |-> d]>> : d \in TypeDefs},
     com \in {<<>>, <<[n \in {"Adresse"} |-> <<>>]>>}}

\* documents that hold at most an "enum" key, of any enums
EnumDocs ==
  {Doc(<<>>, <<>>, enum) : enum \in {<<>>} \cup {<<t>> : t \in EnumTables}}

\* a few schemas, for documents of several types and enums
SampleDefs ==
  { <<>>,
    [k \in {"properties"} |-> ("nummer" :> [t \in {"type"} |-> "string"])],
    [k \in {"properties"} |->
       ("nummer" :> [t \in {"type"} |-> "integer"])
         @@ ("ort" :> [t \in {"type"} |-> "integer"])
         @@ ("_id" :> [t \in {"type"} |-> "string"])] }

\* documents of up to two types under "bo", one under "com", one enum
MixedDocs ==
  {Doc(bo, com, enum) :
     bo \in {<<>>} \cup {<<t>> : t \in UNION {[N -> SampleDefs] : N \in SUBSET TypeNames}},
     com \in {<<>>, <<[n \in {"Zaehler"} |-> [k \in {"properties"} |->
                        ("ort" :> [t \in {"type"} |-> "string"])]]>>},
     enum \in {<<>>, <<[n \in {"Energierichtung"} |-> <<>>]>>,
               <<[n \in {"Sparte"} |-> <<"STROM">>]>>,
               <<[n \in {"Sparte"} |-> <<"STROM", "GAS">>]>>}}

\* a few documents of one type and one enum
LiveDocs ==
  {Doc(bo, <<>>, enum) :
     bo \in {<<>>} \cup {<<[n \in {"Zaehler"} |-> d]>> : d \in SampleDefs},
     enum \in {<<>>, <<[n \in {"Sparte"} |-> <<"STROM">>]>>}}

InitModels == InitOver({AbsoluteScript}, ModelDocs)
InitEnums == InitOver({AbsoluteScript}, EnumDocs)
InitMixed == InitOver(ScriptFiles, MixedDocs)
Init == InitModels \/ InitEnums \/ InitMixed

Spec == Init /\ [][Next]_vars
SpecModels == InitModels /\ [][Next]_vars
SpecEnums == InitEnums /\ [][Next]_vars

\* main() is one sequential process: whenever a statement can run, it runs
FairSpec == InitOver(ScriptFiles, LiveDocs) /\ [][Next]_vars /\ WF_vars(Next)

----------------------------------------------------------------------------
(* Vocabulary of the properties. *)

\* the two documents of a run whose files both parse
P == files[python_path].doc
R == files[rust_path].doc
BothParse == files[python_path].parses /\ files[rust_path].parses

\* main() has run every comparison and is about to print
Compared == pc = "print"
Rep == report[1]

\* the mismatch lines that name the field fld of category/name
lines_of_field(category, name, fld) ==
  {mismatch_line(category, name, fld, TagOrder[a], TagOrder[b]) :
     a \in DOMAIN TagOrder, b \in DOMAIN TagOrder}

\* the number of entries of the list lst that lie in the set S
CountIn(lst, S) == Cardinality({i \in DOMAIN lst : lst[i] \in S})

\* the type definitions of the document d: <<category, name>> pairs
TypesOf(d) ==
  {ct \in {"bo", "com"} \X TypeNames : ct[1] \in DOMAIN d /\ ct[2] \in DOMAIN d[ct[1]]}

PropsOf(d, ct) == Get(d[ct[1]][ct[2]], "properties", <<>>)

\* the document d with the field fld of the type ct set to the entry e
WithField(d, ct, fld, e) ==
  Put(d, ct[1], Put(d[ct[1]], ct[2],
      Put(d[ct[1]][ct[2]], "properties", Put(PropsOf(d, ct), fld, e))))

\* the document d with the field fld of the type ct removed
WithoutField(d, ct, fld) ==
  Put(d, ct[1], Put(d[ct[1]], ct[2],
      Put(d[ct[1]][ct[2]], "properties",
          [x \in (DOMAIN PropsOf(d, ct)) \ {fld} |-> PropsOf(d, ct)[x]])))

----------------------------------------------------------------------------
(* C1: Symmetry.  The report of the run on (python, rust) and the report   *)
(* the comparison gives on the exchanged documents have their two missing  *)
(* maps exchanged, and as many mismatch entries, entry by entry about the   *)
(* same field with the two reported type values exchanged.                 *)
C1_Symmetry ==
  Compared =>
    LET s == full_compare(R, P)
    IN /\ s.missing_in_rust = Rep.missing_in_python
       /\ s.missing_in_python = Rep.missing_in_rust
       /\ Len(s.type_mismatches) = Len(Rep.type_mismatches)
       /\ \A i \in DOMAIN Rep.type_mismatches :
            \E c \in {"bo", "com"}, n \in TypeNames, f \in FieldNames,
               a \in TypeTags, b \in TypeTags :
               /\ Rep.type_mismatches[i] = mismatch_line(c, n, f, a, b)
               /\ s.type_mismatches[i] = mismatch_line(c, n, f, b, a)

\* a run that found one-sided types, one-sided fields and a mismatch
C1_Witness ==
  /\ Compared
  /\ "com/Adresse" \in DOMAIN Rep.missing_in_rust
  /\ "bo/Zaehler" \in DOMAIN Rep.missing_in_python
  /\ "bo/Zaehler" \notin DOMAIN Rep.missing_in_rust
  /\ Rep.type_mismatches = <<"bo/Zaehler.nummer: Python=string, Rust=integer">>

(* C2: Identity.  A run on two equal documents ends with an empty report:  *)
(* both missing maps and the mismatch list are empty, has_drift is false.  *)
C2_Identity ==
  (Compared /\ P = R) => (Rep = DriftReport /\ ~has_drift(Rep))

\* a run on two equal documents that define a type with two typed fields
C2_Witness ==
  /\ Compared
  /\ P = R
  /\ <<"bo", "Zaehler">> \in TypesOf(P)
  /\ {"nummer", "ort"} \subseteq DOMAIN PropsOf(P, <<"bo", "Zaehler">>)
  /\ PropsOf(P, <<"bo", "Zaehler">>)["nummer"] = [k \in {"type"} |-> "string"]

(* C3: Ignore-set exclusion.  Setting a field named in the ignore set, with *)
(* any type tag or none, on any type definition of either document, or      *)
(* removing such a field, leaves the whole report as it is; and two         *)
(* documents that differ only in such fields have no drift and print the    *)
(* no-drift message.                                                        *)
StripIgnored(d) ==
  [c \in DOMAIN d |->
     IF c = "enum" THEN d[c]
     ELSE [n \in DOMAIN d[c] |->
             IF "properties" \in DOMAIN d[c][n]
               THEN [k \in {"properties"} |->
                       [f \in (DOMAIN d[c][n]["properties"]) \ ignore_fields |->
                          d[c][n]["properties"][f]]]
               ELSE d[c][n]]]

C3_IgnoreSet ==
  /\ Compared =>
       /\ \A ct \in TypesOf(P), g \in ignore_fields :
            /\ \A e \in FieldEntries : full_compare(WithField(P, ct, g, e), R) = Rep
            /\ g \in DOMAIN PropsOf(P, ct) => full_compare(WithoutField(P, ct, g), R) = Rep
       /\ \A ct \in TypesOf(R), g \in ignore_fields :
            /\ \A e \in FieldEntries : full_compare(P, WithField(R, ct, g, e)) = Rep
            /\ g \in DOMAIN PropsOf(R, ct) => full_compare(P, WithoutField(R, ct, g)) = Rep
  /\ (pc = "exit" /\ StripIgnored(P) = StripIgnored(R)) =>
       /\ ~has_drift(Rep)
       /\ stdout = <<"# BO4E Drift Report\n\nNo drift detected - schemas are in sync!">>

\* a run on two documents that differ, and only in the ignore-listed _id
C3_Witness ==
  /\ pc = "exit"
  /\ P /= R
  /\ StripIgnored(P) = StripIgnored(R)
  /\ <<"bo", "Zaehler">> \in TypesOf(P) \cap TypesOf(R)
  /\ "_id" \in DOMAIN PropsOf(P, <<"bo", "Zaehler">>)
  /\ "_id" \notin DOMAIN PropsOf(R, <<"bo", "Zaehler">>)
  /\ "nummer" \in DOMAIN PropsOf(R, <<"bo", "Zaehler">>)

(* C4 as stated: adding to a type of the first document a field the second *)
(* document lacks strictly adds the field to missing_in_rust under that     *)
(* type's key (a new "fields" entry of that one name, or the entry's list   *)
(* extended by it) and removes no finding.                                  *)
AllFields == SetOf(FieldOrder)

fields_text(S) == "fields: " \o PyList(SortedSet(S))

\* the entry of key in the map after is the entry in the map before,
\* extended by the field fld
StrictlyAdds(before, after, key, fld) ==
  /\ key \in DOMAIN after
  /\ IF key \in DOMAIN before
       THEN \E S \in SUBSET (AllFields \ {fld}) :
              /\ S /= {}
              /\ before[key] = fields_text(S)
              /\ after[key] = fields_text(S \cup {fld})
       ELSE after[key] = fields_text({fld})

\* every finding of the report old, but the entry of key in missing_in_rust,
\* is a finding of the report new
NothingRemoved(old, new, key) ==
  /\ \A k \in (DOMAIN old.missing_in_rust) \ {key} :
       k \in DOMAIN new.missing_in_rust /\ new.missing_in_rust[k] = old.missing_in_rust[k]
  /\ \A k \in DOMAIN old.missing_in_python :
       k \in DOMAIN new.missing_in_python
         /\ new.missing_in_python[k] = old.missing_in_python[k]
  /\ \A i \in DOMAIN old.type_mismatches :
       old.type_mismatches[i] \in SetOf(new.type_mismatches)

\* the field fld does not exist in the type ct of the second document
LacksField(d, ct, fld) == ct \in TypesOf(d) => fld \notin DOMAIN PropsOf(d, ct)

C4_AsStated ==
  Compared =>
    \A ct \in TypesOf(P) :
      \A fld \in AllFields \ DOMAIN PropsOf(P, ct) :
        LacksField(R, ct, fld) =>
          \A e \in FieldEntries :
            LET new == full_compare(WithField(P, ct, fld, e), R)
                key == qualified(ct[1], ct[2])
            IN /\ StrictlyAdds(Rep.missing_in_rust, new.missing_in_rust, key, fld)
               /\ NothingRemoved(Rep, new, key)

(* C4, amended: adding to a type of the first document a field the second  *)
(* document lacks removes no finding; when the second document defines the  *)
(* type too and the field is not in the ignore set it strictly adds the     *)
(* field to missing_in_rust under the type's key, and otherwise it leaves   *)
(* the report as it is.                                                     *)
C4_Monotonic ==
  Compared =>
    \A ct \in TypesOf(P) :
      \A fld \in AllFields \ DOMAIN PropsOf(P, ct) :
        LacksField(R, ct, fld) =>
          \A e \in FieldEntries :
            LET new == full_compare(WithField(P, ct, fld, e), R)
                key == qualified(ct[1], ct[2])
            IN /\ NothingRemoved(Rep, new, key)
               /\ IF ct \in TypesOf(R) /\ fld \notin ignore_fields
                    THEN StrictlyAdds(Rep.missing_in_rust, new.missing_in_rust, key, fld)
                    ELSE new = Rep

\* a run whose report lists nummer as missing in Rust for a type that both
\* documents define, where ort can be added to the Python side and the list
\* of the entry grows by it
C4_Witness ==
  /\ Compared
  /\ <<"bo", "Zaehler">> \in TypesOf(P) \cap TypesOf(R)
  /\ "bo/Zaehler" \in DOMAIN Rep.missing_in_rust
  /\ Rep.missing_in_rust["bo/Zaehler"] = "fields: ['nummer']"
  /\ "_id" \in DOMAIN PropsOf(R, <<"bo", "Zaehler">>)
  /\ "ort" \notin DOMAIN PropsOf(P, <<"bo", "Zaehler">>)
  /\ "ort" \notin DOMAIN PropsOf(R, <<"bo", "Zaehler">>)

(* C5: a type name that only one document has in a category is recorded as *)
(* "entire type" under "<category>/<name>" in the map of the side that      *)
(* lacks it and yields no field-level finding: the other map has no entry   *)
(* for it and no mismatch entry names one of its fields.  An absent         *)
(* category counts as an empty one.                                         *)
NoFieldFinding(ct) ==
  \A i \in DOMAIN Rep.type_mismatches :
    \A fld \in AllFields :
      Rep.type_mismatches[i] \notin lines_of_field(ct[1], ct[2], fld)

C5_EntireType ==
  Compared =>
    /\ \A ct \in TypesOf(P) \ TypesOf(R) :
         /\ qualified(ct[1], ct[2]) \in DOMAIN Rep.missing_in_rust
         /\ Rep.missing_in_rust[qualified(ct[1], ct[2])] = "entire type"
         /\ qualified(ct[1], ct[2]) \notin DOMAIN Rep.missing_in_python
         /\ NoFieldFinding(ct)
    /\ \A ct \in TypesOf(R) \ TypesOf(P) :
         /\ qualified(ct[1], ct[2]) \in DOMAIN Rep.missing_in_python
         /\ Rep.missing_in_python[qualified(ct[1], ct[2])] = "entire type"
         /\ qualified(ct[1], ct[2]) \notin DOMAIN Rep.missing_in_rust
         /\ NoFieldFinding(ct)

\* a run where only Python has com/Adresse, the Rust document having no
\* "com" key at all, and only Rust has bo/Zaehler, with typed fields
C5_Witness ==
  /\ Compared
  /\ <<"com", "Adresse">> \in TypesOf(P)
  /\ "com" \notin DOMAIN R
  /\ <<"bo", "Zaehler">> \in TypesOf(R) \ TypesOf(P)
  /\ "bo" \in DOMAIN P
  /\ {"nummer", "ort"} \subseteq DOMAIN PropsOf(R, <<"bo", "Zaehler">>)

(* C8 as stated: for a type of both documents and a field of both           *)
(* ignore-reduced field sets, the report holds exactly one mismatch entry   *)
(* for the field if both sides declare a type tag and the tags are unequal  *)
(* strings, and none otherwise.                                             *)
CommonFields(ct) ==
  ((DOMAIN PropsOf(P, ct)) \cap (DOMAIN PropsOf(R, ct))) \ ignore_fields

Declared(d, ct, fld) == "type" \in DOMAIN PropsOf(d, ct)[fld]

MismatchCount(ct, fld) ==
  CountIn(Rep.type_mismatches, lines_of_field(ct[1], ct[2], fld))

C8_AsStated ==
  Compared =>
    \A ct \in TypesOf(P) \cap TypesOf(R) :
      \A fld \in CommonFields(ct) :
        MismatchCount(ct, fld) =
          IF /\ Declared(P, ct, fld)
             /\ Declared(R, ct, fld)
             /\ PropsOf(P, ct)[fld]["type"] /= PropsOf(R, ct)[fld]["type"]
            THEN 1 ELSE 0

(* C8 for non-empty tags: the same, a declared tag that is the empty string *)
(* counting as no tag.                                                      *)
C8_NonEmptyTags ==
  Compared =>
    \A ct \in TypesOf(P) \cap TypesOf(R) :
      \A fld \in CommonFields(ct) :
        MismatchCount(ct, fld) =
          IF /\ Declared(P, ct, fld) /\ PropsOf(P, ct)[fld]["type"] /= ""
             /\ Declared(R, ct, fld) /\ PropsOf(R, ct)[fld]["type"] /= ""
             /\ PropsOf(P, ct)[fld]["type"] /= PropsOf(R, ct)[fld]["type"]
            THEN 1 ELSE 0

(* C6: when both files exist and parse, the run prints the rendered report *)
(* of the comparison to standard output and ends with status zero, with or  *)
(* without drift.                                                           *)
C6_ExitZero ==
  BothParse ~>
    (/\ pc = "done"
     /\ exit_code = 0
     /\ stdout = <<generate_report(full_compare(P, R))>>
     /\ stderr = <<>>)

\* a finished run that reported drift
C6_Witness ==
  /\ pc = "done"
  /\ BothParse
  /\ has_drift(Rep)
  /\ Len(Rep.type_mismatches) = 1
  /\ exit_code = 0
  /\ Len(stdout) = 1

(* C7: when a snapshot file is absent, the run loads no snapshot, builds no *)
(* report and prints nothing to standard output; it does not stop before    *)
(* it has ended, and it ends with a non-zero status after printing to the   *)
(* error stream the first missing path and the command that regenerates it. *)
\* the directory the snapshots are looked up in, as the diagnostic spells it
SchemasDirText ==
  IF script_file = <<"/", "srv", "bo4e-rust", "scripts", "compare_schemas.py">>
    THEN "/srv/bo4e-rust/schemas"
    ELSE "schemas"

C7_MissingInput ==
  (~files[python_path].exists \/ ~files[rust_path].exists) =>
    /\ python = <<>>
    /\ rust = <<>>
    /\ report = <<>>
    /\ stdout = <<>>
    /\ pc /= "done" => (ENABLED Next /\ exit_code = -1 /\ stderr = <<>>)
    /\ pc = "done" =>
         /\ exit_code > 0
         /\ stderr =
              IF ~files[python_path].exists
                THEN <<"Error: " \o SchemasDirText \o "/python_schema.json not found",
                       "Run: python scripts/extract_python_schema.py > schemas/python_schema.json">>
                ELSE <<"Error: " \o SchemasDirText \o "/rust_schema.json not found",
                       "Run: cargo run --bin generate_schema --features json-schema > schemas/rust_schema.json">>

\* a finished run whose Python snapshot was a good file and whose Rust
\* snapshot was absent
C7_Witness ==
  /\ pc = "done"
  /\ files[python_path].parses
  /\ DOMAIN files[python_path].doc /= {}
  /\ ~files[rust_path].exists
  /\ script_file = AbsoluteScript
  /\ stderr[1] = "Error: /srv/bo4e-rust/schemas/rust_schema.json not found"
  /\ exit_code = 1

(* C9: for an enum both documents list, missing_in_rust holds under         *)
(* "enum/<name>" the text "variants: " and the sorted list of the variants  *)
(* only Python has if there are any, and no entry otherwise; missing_in_    *)
(* python likewise for the variants only Rust has; no mismatch entry is     *)
(* made.  Python [STROM, GAS] against Rust [STROM] gives the one entry      *)
(* "variants: ['GAS']" in missing_in_rust.                                  *)
EnumsOf(d) == Get(d, "enum", <<>>)

VariantsEntry(map, key, only) ==
  IF only = {}
    THEN key \notin DOMAIN map
    ELSE key \in DOMAIN map /\ map[key] = "variants: " \o PyList(SortedSet(only))

C9_EnumVariants ==
  Compared =>
    /\ \A name \in (DOMAIN EnumsOf(P)) \cap (DOMAIN EnumsOf(R)) :
         LET a == SetOf(EnumsOf(P)[name])
             b == SetOf(EnumsOf(R)[name])
         IN /\ VariantsEntry(Rep.missing_in_rust, qualified("enum", name), a \ b)
            /\ VariantsEntry(Rep.missing_in_python, qualified("enum", name), b \ a)
    /\ Rep.type_mismatches = <<>>
    /\ (EnumsOf(P) = [n \in {"Sparte"} |-> <<"STROM", "GAS">>]
          /\ EnumsOf(R) = [n \in {"Sparte"} |-> <<"STROM">>]) =>
         /\ Rep.missing_in_rust = [k \in {"enum/Sparte"} |-> "variants: ['GAS']"]
         /\ Rep.missing_in_python = <<>>
    /\ (EnumsOf(P) = [n \in {"Sparte"} |-> <<"STROM", "GAS">>]
          /\ EnumsOf(R) = [n \in {"Sparte"} |-> <<"GAS", "STROM">>]) =>
         Rep = DriftReport

\* a run on an enum with variants only Python has and variants only Rust has
C9_Witness ==
  /\ Compared
  /\ "Sparte" \in (DOMAIN EnumsOf(P)) \cap (DOMAIN EnumsOf(R))
  /\ SetOf(EnumsOf(P)["Sparte"]) = {"GAS"}
  /\ SetOf(EnumsOf(R)["Sparte"]) = {"STROM"}
  /\ Rep.missing_in_rust["enum/Sparte"] = "variants: ['GAS']"
  /\ Rep.missing_in_python["enum/Sparte"] = "variants: ['STROM']"

(* C10: rendering.  With all three collections empty the output is the      *)
(* title, a blank line and the no-drift line, nothing else.  Otherwise it   *)
(* is the title, a blank line, the drift line, then the sections "Missing   *)
(* in Rust", "Missing in Python", "Type Mismatches" in this order, each     *)
(* there exactly when its collection is not empty and made of its heading,  *)
(* one bullet per entry in ascending order and a blank line, then the       *)
(* summary heading and the three counts of entries.                         *)
\* the j-th smallest element of the set S of strings
Nth(S, j) == CHOOSE x \in S : Cardinality({y \in S : StrLess(y, x)}) = j - 1

\* L holds at offset o (after o lines) the section of this heading: its
\* n bullets, bullet(j) being the j-th, and a closing blank line
SectionAt(L, o, heading, n, bullet(_)) ==
  /\ L[o + 1] = heading
  /\ \A j \in 1..n : L[o + 1 + j] = bullet(j)
  /\ L[o + n + 2] = ""

SectionSize(n) == IF n = 0 THEN 0 ELSE n + 2

C10_Rendering ==
  pc = "exit" =>
    LET L == report_lines(Rep)
        mr == Rep.missing_in_rust
        mp == Rep.missing_in_python
        tm == Rep.type_mismatches
        nr == Cardinality(DOMAIN mr)
        np == Cardinality(DOMAIN mp)
        nt == Len(tm)
        o1 == 3
        o2 == o1 + SectionSize(nr)
        o3 == o2 + SectionSize(np)
        o4 == o3 + SectionSize(nt)
        bullet_r(j) == "- **" \o Nth(DOMAIN mr, j) \o "**: " \o mr[Nth(DOMAIN mr, j)]
        bullet_p(j) == "- **" \o Nth(DOMAIN mp, j) \o "**: " \o mp[Nth(DOMAIN mp, j)]
        bullet_t(j) == "- " \o Nth(SetOf(tm), j)
    IN /\ stdout = <<JoinWith("\n", L)>>
       /\ L[1] = "# BO4E Drift Report"
       /\ L[2] = ""
       /\ IF nr = 0 /\ np = 0 /\ nt = 0
            THEN /\ Len(L) = 3
                 /\ L[3] = "No drift detected - schemas are in sync!"
            ELSE /\ Len(L) = o4 + 4
                 /\ L[3] = "Drift detected between Python and Rust schemas\n"
                 /\ nr > 0 => SectionAt(L, o1, "## Missing in Rust (exists in Python)\n",
                                        nr, bullet_r)
                 /\ np > 0 => SectionAt(L, o2, "## Missing in Python (exists in Rust)\n",
                                        np, bullet_p)
                 /\ nt > 0 => SectionAt(L, o3, "## Type Mismatches\n", nt, bullet_t)
                 /\ L[o4 + 1] = "## Summary\n"
                 /\ L[o4 + 2] = "- Missing in Rust: " \o ToString(nr)
                 /\ L[o4 + 3] = "- Missing in Python: " \o ToString(np)
                 /\ L[o4 + 4] = "- Type mismatches: " \o ToString(nt)

\* a printed report with all three sections, two of them of several entries
C10_Witness ==
  /\ pc = "exit"
  /\ Cardinality(DOMAIN Rep.missing_in_rust) >= 2
  /\ Cardinality(DOMAIN Rep.missing_in_python) >= 1
  /\ Len(Rep.type_mismatches) >= 2

\* a printed report without drift
C10_WitnessNoDrift ==
  /\ pc = "exit"
  /\ ~has_drift(Rep)
  /\ DOMAIN P /= {}

====
